---- MODULE Spec2Model ----
(***************************************************************************)
(* Story validator bot: the per-chat monitoring scheduler                  *)
(* (services/monitoring_service.py), the sync monitor                      *)
(* (services/sync_service.py), the message splitter (utils/helpers.py)     *)
(* and the admin_only gate of the handlers (bot/decorators.py,             *)
(* bot/handlers/monitoring.py).                                            *)
(*                                                                         *)
(* The bot runs on one asyncio event loop.  A step of the model is what    *)
(* the loop runs between two awaits: a whole synchronous service call, or  *)
(* the part of a coroutine up to its next await.                           *)
(***************************************************************************)
EXTENDS Integers, Sequences, FiniteSets, Bags, TLC

VARIABLES
    chat_data,  \* chat -> <<chat_data['monitoring']>>, or <<>> without the key
    jobs,       \* chat -> the repeating jobs named monitor_<chat> in the job queue
    tasks,      \* the bag of send_monitoring_update coroutines in flight
    event,      \* what the last step did, as seen from outside
    inputs,     \* the chats, the users and their requests, and what the endpoints,
                \* psutil and the clock may answer
    monitor,    \* the SyncMonitor of the last calculate_sync_metrics, as the call
                \* left it: the object of a job run (dropped when the run ends),
                \* or one object that is kept from one poll to the next
    split       \* a call of split_message: its argument, message and parts

vars == <<chat_data, jobs, tasks, event, inputs, monitor, split>>

----------------------------------------------------------------------------
(* Bounds of the model *)

\* runs of send_monitoring_update that may be in flight at the same time
MaxTasks == 2

\* the chats that talk to the bot
Chats == {1, 2}

\* the operator and a stranger
ADMIN_ID == 7
Users == {ADMIN_ID, 8}

\* block heights the endpoints report
Heights == {1000, 1100, 1101}

\* psutil's disk_percent readings: no line, note, warning
DiskReadings == {50, 85, 95}

\* clock readings of datetime.now()
Times == {10, 60}

MONITORING_INTERVAL == 300

----------------------------------------------------------------------------
(* Texts.  A text is the sequence of the lengths of its lines: <<a, b, c>>  *)
(* is a characters, a newline, b characters, a newline, c characters.  The *)
(* empty text is <<0>>.                                                    *)

RECURSIVE SumSeq(_)
SumSeq(s) == IF s = <<>> THEN 0 ELSE Head(s) + SumSeq(Tail(s))

\* len(text)
len(text) == SumSeq(text) + Len(text) - 1

\* a + b on strings
Concat(a, b) == SubSeq(a, 1, Len(a) - 1) \o <<a[Len(a)] + b[1]>> \o Tail(b)

\* text[:k], for 0 <= k <= len(text)
RECURSIVE Take(_, _)
Take(text, k) ==
    IF k <= text[1] THEN <<k>>
    ELSE <<text[1]>> \o Take(Tail(text), k - text[1] - 1)

\* text[k:], for 0 <= k <= len(text)
RECURSIVE Drop(_, _)
Drop(text, k) ==
    IF k <= text[1] THEN <<text[1] - k>> \o Tail(text)
    ELSE Drop(Tail(text), k - text[1] - 1)

\* index of the j-th newline of text
NewlineAt(text, j) == SumSeq(SubSeq(text, 1, j)) + j - 1

\* text.rfind('\n', 0, end)
rfind(text, end) ==
    LET found == {j \in 1..(Len(text) - 1) : NewlineAt(text, j) < end}
    IN  IF found = {} THEN -1
        ELSE NewlineAt(text, CHOOSE j \in found : \A k \in found : k <= j)

\* the cut split_message makes in a message longer than max_length
split_index(message, max_length) ==
    IF rfind(message, max_length) = -1 THEN max_length
    ELSE rfind(message, max_length)

\* split_message(message, max_length): the list of parts
RECURSIVE split_message(_, _)
split_message(message, max_length) ==
    IF len(message) > max_length
    THEN <<Take(message, split_index(message, max_length))>>
         \o split_message(Drop(message, split_index(message, max_length)), max_length)
    ELSE <<message>>

----------------------------------------------------------------------------
(* The monitoring update's text (monitoring_service.py, lines 32-108 and   *)
(* 129-134).  A message under construction is the sequence of its blocks;  *)
(* Block gives each block's text with the longest values the code can put  *)
(* in it: a 7-digit height, a service line "Status: <raw>", and an         *)
(* exception text of 240 characters (int() cuts the literal it quotes).    *)

Block(tok) ==
    CASE tok = "header"       -> <<27, 0, 0>>
      [] tok = "disk"         -> <<21, 14, 0>>
      [] tok = "disk_warning" -> <<43, 0>>
      [] tok = "disk_note"    -> <<42, 0>>
      [] tok = "blank"        -> <<0, 0>>
      [] tok = "services"     -> <<24, 35, 35, 0>>
      [] tok = "sync"         -> <<32, 38, 38, 37, 36, 0>>
      [] tok = "eta"          -> <<41, 0>>
      [] tok = "warn_behind"  -> <<43, 0>>
      [] tok = "warn_catching_up" -> <<45, 0>>
      [] tok = "connection_error" ->
            <<31, 0, 31, 24, 33, 47, 33, 0, 25, 39, 36, 39, 0, 26 + 240>>
      [] tok = "node_error"   -> <<36, 0, 13 + 240, 0, 45, 41>>
      [] tok = "update_error" -> <<33, 0, 13 + 240, 0, 45, 63>>

RECURSIVE Text(_)
Text(message) ==
    IF message = <<>> THEN <<0>>
    ELSE CHOOSE text \in {Concat(Block(Head(message)), rest) :
                              rest \in {Text(Tail(message))}} : TRUE

\* lines 32-41: the header and the disk section
DiskSection(disk) ==
    <<"header", "disk">>
    \o (IF disk > 90 THEN <<"disk_warning">>
        ELSE IF disk > 80 THEN <<"disk_note">> ELSE <<>>)
    \o <<"blank">>

\* lines 44-66: one line per service, whatever its status, and a blank line
ServiceSection == <<"services", "blank">>

\* as SyncSection with the second warning on an elif
SyncSectionExclusive(sync_metrics) ==
    <<"sync">>
    \o (IF sync_metrics.blocks_behind > 0 /\ sync_metrics.time_remaining # <<>>
        THEN <<"eta">> ELSE <<>>)
    \o (IF sync_metrics.blocks_behind > 100 THEN <<"warn_behind">>
        ELSE IF sync_metrics.catching_up THEN <<"warn_catching_up">> ELSE <<>>)

\* lines 74-87: the section of a snapshot that get_sync_status returned
SyncSection(sync_metrics) ==
    <<"sync">>
    \o (IF sync_metrics.blocks_behind > 0 /\ sync_metrics.time_remaining # <<>>
        THEN <<"eta">> ELSE <<>>)
    \o (IF sync_metrics.blocks_behind > 100 THEN <<"warn_behind">> ELSE <<>>)
    \o (IF sync_metrics.catching_up THEN <<"warn_catching_up">> ELSE <<>>)

\* lines 111-126: the messages to send, the text whole or split_message's parts
Messages(message) ==
    CHOOSE parts \in {IF len(text) <= 4096 THEN <<text>>
                      ELSE split_message(text, 4000) : text \in {Text(message)}} :
        TRUE

----------------------------------------------------------------------------
(* The sync monitor (sync_service.py)                                      *)

\* what a reference endpoint may answer to one GET
RpcFailures == {"unreachable", "http_error", "malformed"}
RpcResponses ==
    [kind : {"ok"}, height : Heights] \cup [kind : RpcFailures, height : {0}]

\* what the local node may answer: a full status document, one without the
\* catching_up field, one without a usable latest_block_height, or a failure
NodeFailures == {"unreachable", "http_error", "malformed"}
NodeResponses ==
    [kind : {"ok"}, height : Heights, catching_up : BOOLEAN]
    \cup [kind : {"no_catching_up"}, height : Heights, catching_up : {FALSE}]
    \cup [kind : NodeFailures, height : {0}, catching_up : {FALSE}]

\* SyncMonitor.__init__; a speed is the fraction <<blocks, seconds>>
NewSyncMonitor ==
    [last_height |-> 0, last_check_time |-> <<>>, sync_speed |-> <<0, 1>>]

\* round(current_height / network_height * 100, 2) in hundredths of a percent
RoundPercent(current_height, network_height) ==
    LET q == (current_height * 10000) \div network_height
        r == (current_height * 10000) % network_height
    IN  IF 2 * r < network_height THEN q
        ELSE IF 2 * r > network_height THEN q + 1
        ELSE IF q % 2 = 0 THEN q ELSE q + 1

\* as sync_percent without the min(99.99, ...) of line 87
sync_percent_uncapped(current_height, network_height) ==
    IF network_height - current_height > 0
    THEN IF network_height > 0
         THEN RoundPercent(current_height, network_height)
         ELSE 0
    ELSE 10000

\* lines 83-89: sync_percent in hundredths of a percent
sync_percent(current_height, network_height) ==
    IF network_height - current_height > 0
    THEN LET p == IF network_height > 0
                  THEN RoundPercent(current_height, network_height)
                  ELSE 0
         IN  IF p < 9999 THEN p ELSE 9999
    ELSE 10000

\* as blocks_behind without the reset of line 90
blocks_behind_unclamped(current_height, network_height) ==
    network_height - current_height

\* lines 82, 83 and 90: blocks_behind
blocks_behind(current_height, network_height) ==
    IF network_height - current_height > 0
    THEN network_height - current_height
    ELSE 0

\* as sync_speed when the new rate is averaged with the one before
sync_speed_smoothed(self, current_height, now) ==
    IF self.last_height > 0 /\ self.last_check_time # <<>>
       /\ now - self.last_check_time[1] > 0
    THEN <<(current_height - self.last_height) * self.sync_speed[2]
               + self.sync_speed[1] * (now - self.last_check_time[1]),
           2 * (now - self.last_check_time[1]) * self.sync_speed[2]>>
    ELSE self.sync_speed

\* as sync_speed without the test of line 93: a monitor that was never
\* polled counts from height 0 at time 0
sync_speed_unguarded(self, current_height, now) ==
    LET last == IF self.last_check_time = <<>> THEN 0 ELSE self.last_check_time[1]
    IN  IF now - last > 0
        THEN <<current_height - self.last_height, now - last>>
        ELSE self.sync_speed

\* lines 93-97: self.sync_speed after the poll at time now
sync_speed(self, current_height, now) ==
    IF self.last_height > 0 /\ self.last_check_time # <<>>
       /\ now - self.last_check_time[1] > 0
    THEN <<current_height - self.last_height, now - self.last_check_time[1]>>
    ELSE self.sync_speed

\* as time_remaining for any speed but 0
time_remaining_unsigned(speed, behind) ==
    IF speed[1] # 0 /\ behind > 0
    THEN <<(behind * speed[2]) \div speed[1]>>
    ELSE <<>>

\* lines 104-107: int(blocks_behind / sync_speed) seconds, or None
time_remaining(speed, behind) ==
    IF speed[1] > 0 /\ behind > 0
    THEN <<(behind * speed[2]) \div speed[1]>>
    ELSE <<>>

\* as calculate_sync_metrics without the assignment of line 100
calculate_sync_metrics_partial(self, current_height, network_height, node_status, now) ==
    LET behind == blocks_behind(current_height, network_height)
        speed == sync_speed(self, current_height, now)
    IN  [self |-> [last_height |-> self.last_height,
                   last_check_time |-> <<now>>,
                   sync_speed |-> speed],
         raised |-> node_status.kind = "no_catching_up",
         metrics |-> [current_height |-> current_height,
                      network_height |-> network_height,
                      blocks_behind |-> behind,
                      sync_percent |-> sync_percent(current_height, network_height),
                      sync_speed |-> speed,
                      time_remaining |-> time_remaining(speed, behind),
                      catching_up |-> node_status.catching_up]]

\* SyncMonitor.calculate_sync_metrics at time now: the monitor's new state and
\* the metrics, or raised when node_status has no catching_up field (line 116)
calculate_sync_metrics(self, current_height, network_height, node_status, now) ==
    LET behind == blocks_behind(current_height, network_height)
        speed == sync_speed(self, current_height, now)
    IN  [self |-> [last_height |-> current_height,
                   last_check_time |-> <<now>>,
                   sync_speed |-> speed],
         raised |-> node_status.kind = "no_catching_up",
         metrics |-> [current_height |-> current_height,
                      network_height |-> network_height,
                      blocks_behind |-> behind,
                      sync_percent |-> sync_percent(current_height, network_height),
                      sync_speed |-> speed,
                      time_remaining |-> time_remaining(speed, behind),
                      catching_up |-> node_status.catching_up]]

\* as is_healthy with the limit included
is_healthy_inclusive(metrics) == metrics.blocks_behind <= 100 /\ ~metrics.catching_up

\* lines 138-141 of get_sync_status
is_healthy(metrics) == metrics.blocks_behind < 100 /\ ~metrics.catching_up

----------------------------------------------------------------------------
(* State *)

\* chat_data.get('monitoring', False)
Monitoring(cd, chat_id) == cd[chat_id] # <<>> /\ cd[chat_id][1]

\* a run of send_monitoring_update: where it is suspended, its chat, whether
\* its job has been removed since it was started, and its local variables
NewTask(chat_id) ==
    [pc |-> "pending", chat |-> chat_id, stale |-> FALSE, message |-> <<>>,
     network_height |-> 0, rpc1_failed |-> FALSE, unsent |-> 0, nsent |-> 0]

\* the record of a step: the operation, its chat, what it returned (with the
\* interval get_monitoring_status was given and the minutes it made of it), the
\* outside calls it started, the messages it delivered, whether an exception
\* left the job callback, whether the job run ended, and what the answer
\* (resp) made of get_network_height (net), of get_sync_status (sync) and of
\* the SyncMonitor it was called on (self before the call, monitor after)
Ev(op, chat_id) ==
    [op |-> op, chat |-> chat_id, ret |-> FALSE,
     interval |-> 0, interval_minutes |-> 0,
     calls |-> {}, sent |-> 0, raised |-> FALSE, ended |-> FALSE,
     total_sent |-> 0, message |-> <<>>,
     resp |-> <<>>, net |-> <<>>, sync |-> <<>>,
     self |-> NewSyncMonitor, monitor |-> NewSyncMonitor]

\* get_system_info()['disk_percent']: a reading, or <<>> when psutil raises
DiskResults == {<<>>} \cup {<<d>> : d \in DiskReadings}

\* no call of split_message is going on
NoSplit == [input |-> <<0>>, message |-> <<0>>, parts |-> <<>>, returned |-> FALSE]

Start(in) ==
    /\ chat_data = [c \in in.chats |-> <<>>]
    /\ jobs = [c \in in.chats |-> <<>>]
    /\ tasks = EmptyBag
    /\ event = Ev("init", 0)
    /\ inputs = in
    /\ monitor = NewSyncMonitor
    /\ split = NoSplit

----------------------------------------------------------------------------
(* MonitoringService: the synchronous operations (lines 142-191)           *)

\* job.schedule_removal() of chat_id's jobs: a coroutine that a removed job
\* started keeps running
Orphan(t, chat_id) ==
    IF t.chat = chat_id THEN [t EXCEPT !.stale = TRUE] ELSE t

RECURSIVE OrphanAll(_, _, _)
OrphanAll(bag, todo, chat_id) ==
    IF todo = {} THEN EmptyBag
    ELSE LET t == CHOOSE x \in todo : TRUE
         IN  OrphanAll(bag, todo \ {t}, chat_id)
             (+) [u \in {Orphan(t, chat_id)} |-> bag[t]]

\* as activate_monitoring without the early return of lines 160-162
activate_monitoring_unguarded(chat_id, interval) ==
    /\ chat_data' = [chat_data EXCEPT ![chat_id] = <<TRUE>>]
    /\ jobs' = [jobs EXCEPT ![chat_id] = Append(@, [interval |-> interval, first |-> 10])]
    /\ event' = [Ev("activate_monitoring", chat_id) EXCEPT !.ret = TRUE]
    /\ UNCHANGED tasks

activate_monitoring(chat_id, interval) ==
    IF Monitoring(chat_data, chat_id)
    THEN /\ event' = [Ev("activate_monitoring", chat_id) EXCEPT !.ret = FALSE]
         /\ UNCHANGED <<chat_data, jobs, tasks>>
    ELSE /\ chat_data' = [chat_data EXCEPT ![chat_id] = <<TRUE>>]
         /\ jobs' = [jobs EXCEPT ![chat_id] = Append(@, [interval |-> interval, first |-> 10])]
         /\ event' = [Ev("activate_monitoring", chat_id) EXCEPT !.ret = TRUE]
         /\ UNCHANGED tasks

\* as deactivate_monitoring taking every job of the queue for the chat's
deactivate_monitoring_all_chats(chat_id) ==
    IF ~Monitoring(chat_data, chat_id)
    THEN /\ event' = [Ev("deactivate_monitoring", chat_id) EXCEPT !.ret = FALSE]
         /\ UNCHANGED <<chat_data, jobs, tasks>>
    ELSE /\ chat_data' = [chat_data EXCEPT ![chat_id] = <<FALSE>>]
         /\ jobs' = [c \in DOMAIN jobs |-> <<>>]
         /\ tasks' = [t \in {[u EXCEPT !.stale = TRUE] : u \in BagToSet(tasks)} |-> 1]
         /\ event' = [Ev("deactivate_monitoring", chat_id) EXCEPT !.ret = TRUE]

\* as deactivate_monitoring without the removal loop of lines 188-190
deactivate_monitoring_keeping_jobs(chat_id) ==
    IF ~Monitoring(chat_data, chat_id)
    THEN /\ event' = [Ev("deactivate_monitoring", chat_id) EXCEPT !.ret = FALSE]
         /\ UNCHANGED <<chat_data, jobs, tasks>>
    ELSE /\ chat_data' = [chat_data EXCEPT ![chat_id] = <<FALSE>>]
         /\ event' = [Ev("deactivate_monitoring", chat_id) EXCEPT !.ret = TRUE]
         /\ UNCHANGED <<jobs, tasks>>

\* as deactivate_monitoring without the early return of lines 182-184
deactivate_monitoring_unguarded(chat_id) ==
    /\ chat_data' = [chat_data EXCEPT ![chat_id] = <<FALSE>>]
    /\ jobs' = [jobs EXCEPT ![chat_id] = <<>>]
    /\ tasks' = OrphanAll(tasks, BagToSet(tasks), chat_id)
    /\ event' = [Ev("deactivate_monitoring", chat_id) EXCEPT !.ret = TRUE]

deactivate_monitoring(chat_id) ==
    IF ~Monitoring(chat_data, chat_id)
    THEN /\ event' = [Ev("deactivate_monitoring", chat_id) EXCEPT !.ret = FALSE]
         /\ UNCHANGED <<chat_data, jobs, tasks>>
    ELSE /\ chat_data' = [chat_data EXCEPT ![chat_id] = <<FALSE>>]
         /\ jobs' = [jobs EXCEPT ![chat_id] = <<>>]
         /\ tasks' = OrphanAll(tasks, BagToSet(tasks), chat_id)
         /\ event' = [Ev("deactivate_monitoring", chat_id) EXCEPT !.ret = TRUE]

\* as get_monitoring_status reading the flag with setdefault
get_monitoring_status_writing(chat_id, interval) ==
    /\ event' = [Ev("get_monitoring_status", chat_id) EXCEPT
                    !.ret = Monitoring(chat_data, chat_id),
                    !.interval = interval,
                    !.interval_minutes = interval \div 60]
    /\ chat_data' = [chat_data EXCEPT ![chat_id] = <<Monitoring(chat_data, chat_id)>>]
    /\ UNCHANGED <<jobs, tasks>>

get_monitoring_status(chat_id, interval) ==
    /\ event' = [Ev("get_monitoring_status", chat_id) EXCEPT
                    !.ret = Monitoring(chat_data, chat_id),
                    !.interval = interval,
                    !.interval_minutes = interval \div 60]
    /\ UNCHANGED <<chat_data, jobs, tasks>>

\* handlers/restart.py, handle_restart_service: restart_service runs
\* systemctl restart; the monitoring state is not touched
handle_restart_service(chat_id) ==
    /\ event' = [Ev("restart_service", chat_id) EXCEPT !.calls = {"systemctl"}]
    /\ UNCHANGED <<chat_data, jobs, tasks>>

\* the callback data that reach the monitoring service or restart a service
Handlers ==
    {"monitor_activate", "monitor_deactivate", "monitor_status", "restart_story"}

\* as admin_only without the comparison of line 26
admin_only_open(user_id, chat_id, handler) ==
    CASE handler = "monitor_activate" ->
            activate_monitoring(chat_id, MONITORING_INTERVAL)
      [] handler = "monitor_deactivate" ->
            deactivate_monitoring(chat_id)
      [] handler = "monitor_status" ->
            get_monitoring_status(chat_id, MONITORING_INTERVAL)
      [] handler = "restart_story" ->
            handle_restart_service(chat_id)

\* decorators.admin_only around the three callback handlers of
\* handlers/monitoring.py and the one of handlers/restart.py: a stranger gets
\* the alert and nothing else
admin_only(user_id, chat_id, handler) ==
    IF user_id # ADMIN_ID
    THEN /\ event' = Ev("unauthorized", chat_id)
         /\ UNCHANGED <<chat_data, jobs, tasks>>
    ELSE CASE handler = "monitor_activate" ->
                activate_monitoring(chat_id, MONITORING_INTERVAL)
           [] handler = "monitor_deactivate" ->
                deactivate_monitoring(chat_id)
           [] handler = "monitor_status" ->
                get_monitoring_status(chat_id, MONITORING_INTERVAL)
           [] handler = "restart_story" ->
                handle_restart_service(chat_id)

Callback ==
    /\ \E user_id \in inputs.users, chat_id \in inputs.chats,
          handler \in inputs.handlers :
           admin_only(user_id, chat_id, handler)
    /\ UNCHANGED <<inputs, monitor, split>>

----------------------------------------------------------------------------
(* SyncMonitor.get_sync_status, resumed at each of its awaits              *)

\* as AfterRpc1 when the first return is lost: always on to RPC_ENDPOINT_2
AfterRpc1Skipped(resp) == <<>>

\* get_network_height after RPC_ENDPOINT_1 answered (lines 28-35): the height,
\* or <<>> to go on to RPC_ENDPOINT_2
AfterRpc1(resp) ==
    IF resp.kind = "ok" THEN <<"returned", resp.height>> ELSE <<>>

\* get_network_height after RPC_ENDPOINT_2 answered (lines 37-46)
AfterRpc2(resp) ==
    IF resp.kind = "ok" THEN <<"returned", resp.height>> ELSE <<"raised">>

\* as AfterNode without the status check of lines 58-59: whatever body came
\* back is read as a status document
AfterNodePartial(network_height, resp, now) ==
    IF resp.kind = "unreachable"
    THEN [sync |-> <<"raised", "ClientConnectorError">>, monitor |-> NewSyncMonitor]
    ELSE LET r == calculate_sync_metrics(NewSyncMonitor, resp.height,
                                         network_height, resp, now)
         IN  [sync |-> IF r.raised THEN <<"raised", "Exception">>
                       ELSE <<"returned", r.metrics, is_healthy(r.metrics)>>,
              monitor |-> r.self]

\* get_sync_status on the monitor self after the local node answered (lines
\* 55-60 and 131-147): what it returns or raises, and the monitor afterwards
get_sync_status(self, network_height, resp, now) ==
    IF resp.kind = "unreachable"
    THEN [sync |-> <<"raised", "ClientConnectorError">>, monitor |-> self]
    ELSE IF resp.kind \in {"http_error", "malformed"}
    THEN [sync |-> <<"raised", "Exception">>, monitor |-> self]
    ELSE LET r == calculate_sync_metrics(self, resp.height,
                                         network_height, resp, now)
         IN  [sync |-> IF r.raised THEN <<"raised", "Exception">>
                       ELSE <<"returned", r.metrics, is_healthy(r.metrics)>>,
              monitor |-> r.self]

\* get_sync_status on the monitor that line 70 of monitoring_service.py has
\* just made
AfterNode(network_height, resp, now) ==
    get_sync_status(NewSyncMonitor, network_height, resp, now)

\* as SyncOutcome when the handler of lines 102-108 catches every failure
SyncOutcomeGeneric(sync) ==
    IF sync[1] = "returned" THEN SyncSection(sync[2]) ELSE <<"node_error">>

\* as SyncOutcome when the handler of lines 88-101 catches every failure
SyncOutcomeConnection(sync) ==
    IF sync[1] = "returned" THEN SyncSection(sync[2]) ELSE <<"connection_error">>

\* monitoring_service.py lines 68-108: the section for what get_sync_status did
SyncOutcome(sync) ==
    IF sync[1] = "returned" THEN SyncSection(sync[2])
    ELSE IF sync[2] = "ClientConnectorError" THEN <<"connection_error">>
    ELSE <<"node_error">>

----------------------------------------------------------------------------
(* MonitoringService.send_monitoring_update, one job run (lines 19-140)    *)

\* the coroutine t goes on as t2 / has returned
Resume(t, t2) == (tasks (-) SetToBag({t})) (+) SetToBag({t2})
Finish(t) == tasks (-) SetToBag({t})

\* the job queue runs job monitor_<chat_id>: the coroutine is created and
\* waits for its turn on the loop.  A job has one running instance at most.
Fire(chat_id) ==
    /\ jobs[chat_id] # <<>>
    /\ \A t \in BagToSet(tasks) : t.chat = chat_id => t.stale
    /\ BagCardinality(tasks) < inputs.max_tasks
    /\ tasks' = tasks (+) SetToBag({NewTask(chat_id)})
    /\ event' = Ev("fire", chat_id)
    /\ UNCHANGED <<chat_data, jobs, inputs, monitor, split>>

\* the text is complete: lines 111-126 start sending it
StartSending(t, message) ==
    [t EXCEPT !.pc = "send", !.message = message,
              !.unsent = Len(Messages(message))]

\* lines 128-140: the outer handler sends error_message instead
StartSendingError(t) ==
    [t EXCEPT !.pc = "send_err", !.message = <<"update_error">>, !.unsent = 1]

\* as StillActive when the run never reads the flag
StillActiveAlways(t) == TRUE

\* line 22: the chat's flag when the coroutine gets its turn
StillActive(t) == Monitoring(chat_data, t.chat)

\* as Skip when the inactive chat is told so
SkipNotifying(t) ==
    /\ tasks' = Resume(t, StartSendingError(t))
    /\ event' = [Ev("skip", t.chat) EXCEPT !.calls = {"send_message"}]

\* line 23: return
Skip(t) ==
    /\ tasks' = Finish(t)
    /\ event' = [Ev("skip", t.chat) EXCEPT !.ended = TRUE]

\* as DiskFailed without the outer handler of lines 128-140
DiskFailedUncaught(t) ==
    /\ tasks' = Finish(t)
    /\ event' = [Ev("begin", t.chat) EXCEPT
                    !.calls = {"services", "disk"},
                    !.raised = TRUE, !.ended = TRUE]

\* line 31 raised: lines 128-140 send error_message
DiskFailed(t) ==
    /\ tasks' = Resume(t, StartSendingError(t))
    /\ event' = [Ev("begin", t.chat) EXCEPT
                    !.calls = {"services", "disk", "send_message"}]

\* the job run is suspended in an await of an endpoint's answer
Awaiting(t) == t.pc \in {"rpc1", "rpc2", "node"}

\* as Begin with endpoint calls that hold the event loop: no run starts while
\* another one waits for an answer
BeginBlocking(t) ==
    /\ t.pc = "pending"
    /\ \A u \in BagToSet(tasks) : ~Awaiting(u)
    /\ IF ~StillActive(t)
       THEN Skip(t)
       ELSE \E disk \in inputs.disk :
            IF disk = <<>>
            THEN DiskFailed(t)
            ELSE /\ tasks' = Resume(t, [t EXCEPT
                                 !.pc = "rpc1",
                                 !.message = DiskSection(disk[1]) \o ServiceSection])
                 /\ event' = [Ev("begin", t.chat) EXCEPT
                                 !.calls = {"services", "disk", "rpc1"}]
    /\ UNCHANGED <<chat_data, jobs, inputs, monitor, split>>

\* lines 21-71, up to the first await (the GET of RPC_ENDPOINT_1)
Begin(t) ==
    /\ t.pc = "pending"
    /\ IF ~StillActive(t)
       THEN Skip(t)
       ELSE \E disk \in inputs.disk :
            IF disk = <<>>
            THEN DiskFailed(t)
            ELSE /\ tasks' = Resume(t, [t EXCEPT
                                 !.pc = "rpc1",
                                 !.message = DiskSection(disk[1]) \o ServiceSection])
                 /\ event' = [Ev("begin", t.chat) EXCEPT
                                 !.calls = {"services", "disk", "rpc1"}]
    /\ UNCHANGED <<chat_data, jobs, inputs, monitor, split>>

\* RPC_ENDPOINT_1 answered
Rpc1Reply(t) ==
    /\ t.pc = "rpc1"
    /\ \E resp \in inputs.rpc :
        LET net == AfterRpc1(resp)
        IN  IF net = <<>>
            THEN /\ tasks' = Resume(t, [t EXCEPT !.pc = "rpc2", !.rpc1_failed = TRUE])
                 /\ event' = [Ev("rpc1", t.chat) EXCEPT
                                 !.resp = resp, !.calls = {"rpc2"}]
            ELSE /\ tasks' = Resume(t, [t EXCEPT !.pc = "node",
                                                 !.network_height = net[2]])
                 /\ event' = [Ev("rpc1", t.chat) EXCEPT
                                 !.resp = resp, !.net = net, !.calls = {"node"}]
    /\ UNCHANGED <<chat_data, jobs, inputs, monitor, split>>

\* RPC_ENDPOINT_2 answered
Rpc2Reply(t) ==
    /\ t.pc = "rpc2"
    /\ \E resp \in inputs.rpc :
        LET net == AfterRpc2(resp)
        IN  IF net[1] = "raised"
            THEN LET sync == <<"raised", "Exception">>
                 IN  /\ \E message \in {t.message \o SyncOutcome(sync)} :
                            tasks' = Resume(t, StartSending(t, message))
                     /\ event' = [Ev("rpc2", t.chat) EXCEPT
                                     !.resp = resp, !.net = net, !.sync = sync,
                                     !.calls = {"send_message"}]
            ELSE /\ tasks' = Resume(t, [t EXCEPT !.pc = "node",
                                                 !.network_height = net[2]])
                 /\ event' = [Ev("rpc2", t.chat) EXCEPT
                                 !.resp = resp, !.net = net, !.calls = {"node"}]
    /\ UNCHANGED <<chat_data, jobs, inputs, monitor, split>>

\* the local node answered: get_sync_status ends on the run's own monitor,
\* the text is completed
NodeReply(t) ==
    /\ t.pc = "node"
    /\ \E resp \in inputs.node, now \in inputs.times :
        \E r \in {AfterNode(t.network_height, resp, now)} :
            /\ \E message \in {t.message \o SyncOutcome(r.sync)} :
                   tasks' = Resume(t, StartSending(t, message))
            /\ event' = [Ev("node", t.chat) EXCEPT
                            !.resp = resp, !.sync = r.sync, !.monitor = r.monitor,
                            !.calls = {"send_message"}]
            /\ monitor' = IF resp.kind \in {"ok", "no_catching_up"}
                          THEN r.monitor ELSE monitor
    /\ UNCHANGED <<chat_data, jobs, inputs, split>>

\* bot.send_message of the update (or of one part of it) returned or raised
SendReply(t) ==
    /\ t.pc = "send"
    /\ \E delivered \in BOOLEAN :
        IF ~delivered
        THEN /\ tasks' = Resume(t, StartSendingError(t))
             /\ event' = [Ev("send", t.chat) EXCEPT !.calls = {"send_message"}]
        ELSE IF t.unsent > 1
        THEN /\ tasks' = Resume(t, [t EXCEPT !.unsent = @ - 1, !.nsent = @ + 1])
             /\ event' = [Ev("send", t.chat) EXCEPT
                             !.sent = 1, !.message = t.message,
                             !.calls = {"send_message"}]
        ELSE /\ tasks' = Finish(t)
             /\ event' = [Ev("send", t.chat) EXCEPT
                             !.sent = 1, !.message = t.message,
                             !.ended = TRUE, !.total_sent = t.nsent + 1]
    /\ UNCHANGED <<chat_data, jobs, inputs, monitor, split>>

\* as SendErrorReply with a cutoff: a run that had to report an error
\* switches the chat's monitoring off
SendErrorReplyCancelling(t) ==
    /\ t.pc = "send_err"
    /\ tasks' = Finish(t)
    /\ event' = [Ev("send_error", t.chat) EXCEPT
                    !.sent = 1, !.message = t.message, !.ended = TRUE,
                    !.total_sent = t.nsent + 1]
    /\ chat_data' = [chat_data EXCEPT ![t.chat] = <<FALSE>>]
    /\ jobs' = [jobs EXCEPT ![t.chat] = <<>>]
    /\ UNCHANGED <<inputs, monitor, split>>

\* bot.send_message of error_message returned, or raised out of the callback
SendErrorReply(t) ==
    /\ t.pc = "send_err"
    /\ \E delivered \in BOOLEAN :
        /\ tasks' = Finish(t)
        /\ event' = [Ev("send_error", t.chat) EXCEPT
                        !.sent = IF delivered THEN 1 ELSE 0,
                        !.message = t.message,
                        !.raised = ~delivered,
                        !.ended = TRUE,
                        !.total_sent = t.nsent + (IF delivered THEN 1 ELSE 0)]
    /\ UNCHANGED <<chat_data, jobs, inputs, monitor, split>>

----------------------------------------------------------------------------
(* Specifications *)

\* the operator in two chats and overlapping job runs; the endpoints answer
\* with one height or, the reference endpoints, not at all
SchedulerInputs ==
    [chats |-> Chats, max_tasks |-> MaxTasks,
     users |-> {ADMIN_ID},
     handlers |-> {"monitor_activate", "monitor_deactivate", "monitor_status"},
     disk |-> {<<50>>}, times |-> {10},
     rpc |-> {r \in RpcResponses : r.kind \in {"ok", "unreachable"} /\ r.height <= 1000},
     node |-> {r \in NodeResponses : r.kind = "ok" /\ r.height <= 1000
                                     /\ ~r.catching_up}]

\* one chat, one job run at a time, every user, request and answer
PollInputs ==
    [chats |-> {1}, max_tasks |-> 1,
     users |-> Users, handlers |-> Handlers,
     disk |-> DiskResults, times |-> Times,
     rpc |-> RpcResponses, node |-> NodeResponses]

Init == Start(SchedulerInputs)

InitPoll == Start(PollInputs)

Next ==
    \/ Callback
    \/ \E chat_id \in inputs.chats : Fire(chat_id)
    \/ \E t \in BagToSet(tasks) : Begin(t)
    \/ \E t \in BagToSet(tasks) : Rpc1Reply(t)
    \/ \E t \in BagToSet(tasks) : Rpc2Reply(t)
    \/ \E t \in BagToSet(tasks) : NodeReply(t)
    \/ \E t \in BagToSet(tasks) : SendReply(t)
    \/ \E t \in BagToSet(tasks) : SendErrorReply(t)

Spec == Init /\ [][Next]_vars

SpecPoll == InitPoll /\ [][Next]_vars

\* a step of a job run of chat_id: the event loop resumes the coroutine, at
\* its start or when the answer it awaits has arrived
RunStep(chat_id) ==
    \E t \in BagToSet(tasks) :
        /\ t.chat = chat_id
        /\ \/ Begin(t) \/ Rpc1Reply(t) \/ Rpc2Reply(t) \/ NodeReply(t)
           \/ SendReply(t) \/ SendErrorReply(t)

\* the chat whose endpoint calls may never return, and the other one
HungChat == CHOOSE c \in Chats : \A d \in Chats : c <= d
OtherChat == CHOOSE c \in Chats : \A d \in Chats : d <= c

\* the loop runs every coroutine that is ready, and the calls of OtherChat's
\* runs are answered; nothing is assumed of the calls of HungChat's runs
FairInputs ==
    [SchedulerInputs EXCEPT
        !.handlers = {"monitor_activate", "monitor_deactivate"},
        !.rpc = {r \in RpcResponses : r.kind = "unreachable"
                                       \/ (r.kind = "ok" /\ r.height = 1100)},
        !.node = {r \in NodeResponses : r.kind = "ok" /\ r.height = 1000
                                         /\ ~r.catching_up}]

InitFair == Start(FairInputs)

SpecFair == InitFair /\ [][Next]_vars /\ WF_vars(RunStep(OtherChat))

\* MonitoringService.get_monitoring_status called with any interval, between
\* the steps of the bot
Intervals == {0, 59, 90, 300}

StatusQuery ==
    /\ \E chat_id \in inputs.chats, interval \in Intervals :
          get_monitoring_status(chat_id, interval)
    /\ UNCHANGED <<inputs, monitor, split>>

NextStatus == Next \/ StatusQuery

SpecStatus == InitPoll /\ [][NextStatus]_vars

----------------------------------------------------------------------------
(* One SyncMonitor polled again and again: get_sync_status on the object    *)
(* that kept last_height, last_check_time and sync_speed of the poll before *)

\* heights the reference endpoints report, from an empty chain on
NetworkHeights == {0, 1100, 100000}

\* heights the node reports: 99999 of 100000 blocks is 100.00 when rounded
NodeHeights == {0, 1000, 1100, 99999}

\* datetime.now() is the wall clock: between two polls it may advance, stand
\* still or be set back
SyncInputs ==
    [chats |-> {1}, max_tasks |-> 0,
     users |-> {ADMIN_ID}, handlers |-> Handlers,
     disk |-> {<<50>>}, times |-> Times,
     rpc |-> [kind : {"ok"}, height : NetworkHeights]
             \cup [kind : {"unreachable"}, height : {0}],
     node |-> [kind : {"ok"}, height : NodeHeights, catching_up : BOOLEAN]
              \cup [kind : {"no_catching_up"}, height : {1000}, catching_up : {FALSE}]
              \cup [kind : NodeFailures, height : {0}, catching_up : {FALSE}]]

\* get_sync_status once get_network_height has returned or raised (net): the
\* node is asked only for a reference height, and answers at time now
PollAfter(net) ==
    IF net[1] = "raised"
    THEN /\ monitor' = monitor
         /\ event' = [Ev("get_sync_status", 0) EXCEPT
                         !.net = net, !.sync = <<"raised", "Exception">>,
                         !.self = monitor, !.monitor = monitor]
    ELSE \E resp \in inputs.node, now \in inputs.times :
            LET r == get_sync_status(monitor, net[2], resp, now)
            IN  /\ monitor' = r.monitor
                /\ event' = [Ev("get_sync_status", 0) EXCEPT
                                !.resp = resp, !.net = net, !.sync = r.sync,
                                !.self = monitor, !.monitor = r.monitor]

\* await self.get_sync_status() on the kept monitor, as one step
Poll ==
    /\ \E rpc1 \in inputs.rpc :
          IF AfterRpc1(rpc1) # <<>>
          THEN PollAfter(AfterRpc1(rpc1))
          ELSE \E rpc2 \in inputs.rpc : PollAfter(AfterRpc2(rpc2))
    /\ UNCHANGED <<chat_data, jobs, tasks, inputs, split>>

InitSync == Start(SyncInputs)

NextSync == Poll

SpecSync == InitSync /\ [][NextSync]_vars

----------------------------------------------------------------------------
(* Properties *)

FireOps == {"fire", "skip", "begin", "rpc1", "rpc2", "node", "send", "send_error"}

\* C1: activate_monitoring on a chat that is already active returns False and
\* schedules nothing: the chat still has exactly one job named for it.
C1_ActivateWhileActive ==
    [][(event'.op = "activate_monitoring" /\ Monitoring(chat_data, event'.chat))
        => /\ ~event'.ret
           /\ jobs' = jobs /\ chat_data' = chat_data /\ tasks' = tasks
           /\ Len(jobs'[event'.chat]) = 1]_vars

C1_Witness ==
    event.op = "activate_monitoring" /\ ~event.ret /\ Len(jobs[event.chat]) = 1

\* C2: in every reachable state a chat has one scheduled job if its
\* 'monitoring' flag is true and none otherwise.
C2_JobIffActive ==
    \A c \in inputs.chats :
        Len(jobs[c]) = (IF Monitoring(chat_data, c) THEN 1 ELSE 0)

\* active again after a deactivation that orphaned a run
C2_Witness ==
    \E t \in BagToSet(tasks) :
        t.stale /\ Monitoring(chat_data, t.chat) /\ Len(jobs[t.chat]) = 1

\* C3: deactivate_monitoring returning True leaves no job under the chat's
\* name and the flag false, and while the flag is false no job of the chat
\* fires and no run of the chat starts a poll.
C3_NoPollAfterDeactivate ==
    [][/\ (event'.op = "deactivate_monitoring" /\ event'.ret)
            => (jobs'[event'.chat] = <<>> /\ ~Monitoring(chat_data', event'.chat))
       /\ (event'.op \in {"fire", "begin"} \/ event'.calls \cap {"services", "disk", "rpc1"} # {})
            => Monitoring(chat_data, event'.chat)]_vars

\* a run was waiting for its turn when the chat was deactivated
C3_Witness ==
    /\ event.op = "deactivate_monitoring" /\ event.ret
    /\ \E t \in BagToSet(tasks) : t.pc = "pending" /\ t.chat = event.chat

\* C4: no message is sent to a chat whose monitoring is off: a run that was
\* polling when the chat was deactivated does not call send_message.
C4_NoSendAfterDeactivate ==
    "send_message" \in event.calls => Monitoring(chat_data, event.chat)

\* C5: a run that gets its turn while its chat is not active returns at once:
\* no query, no message, no exception, and nothing changes but the run's end.
C5_InactiveRunIsNoOp ==
    [][(event'.op \in {"skip", "begin"} /\ ~Monitoring(chat_data, event'.chat))
        => /\ event'.op = "skip" /\ event'.ended
           /\ event'.calls = {} /\ event'.sent = 0 /\ ~event'.raised
           /\ chat_data' = chat_data /\ jobs' = jobs
           /\ \E t \in BagToSet(tasks) :
                 /\ t.pc = "pending" /\ t.chat = event'.chat
                 /\ tasks' = tasks (-) SetToBag({t})]_vars

C5_Witness == event.op = "skip" /\ event.ended /\ event.calls = {}

\* C6: deactivate_monitoring on a chat that is not active returns False and
\* changes neither the chat's flag nor the scheduled jobs.
C6_DeactivateInactive ==
    [][(event'.op = "deactivate_monitoring" /\ ~Monitoring(chat_data, event'.chat))
        => /\ ~event'.ret /\ ~event'.raised
           /\ chat_data' = chat_data /\ jobs' = jobs /\ tasks' = tasks]_vars

\* on a chat that was never activated
C6_Witness ==
    event.op = "deactivate_monitoring" /\ ~event.ret /\ chat_data[event.chat] = <<>>

\* C7: a run that found its chat active ends with a message delivered, whatever
\* the disk query, the endpoints and the node answered; an exception leaves
\* the callback only when send_message itself refuses error_message.
C7_ActiveRunReports ==
    /\ event.raised => (event.op = "send_error" /\ event.sent = 0)
    /\ (event.ended /\ event.op # "skip" /\ ~event.raised) => event.total_sent >= 1
    /\ event.ended => event.op \in {"skip", "send", "send_error"}

\* the disk query failed and error_message was delivered
C7_Witness ==
    event.ended /\ event.sent = 1 /\ event.message = <<"update_error">>

\* C8: no step of a job run, failing or not, changes the chat's flag or its
\* job: after a run the job is still scheduled at the interval it was given.
C8_FailuresKeepMonitoring ==
    [][event'.op \in FireOps
        => /\ chat_data' = chat_data /\ jobs' = jobs
           /\ (event'.ended /\ Monitoring(chat_data', event'.chat))
                => jobs'[event'.chat] =
                      <<[interval |-> MONITORING_INTERVAL, first |-> 10]>>]_vars

\* a run ended in an exception and the chat is still monitored
C8_Witness ==
    /\ event.ended /\ event.raised
    /\ Monitoring(chat_data, event.chat) /\ jobs[event.chat] # <<>>

\* C9: get_network_height returns endpoint 1's height when it answers, asks
\* endpoint 2 only when endpoint 1 failed and then returns endpoint 2's
\* height, and raises only when both failed.
C9_ReferenceOrder ==
    /\ event.op = "rpc1" =>
          IF event.resp.kind = "ok"
          THEN event.net = <<"returned", event.resp.height>> /\ "rpc2" \notin event.calls
          ELSE event.net = <<>> /\ "rpc2" \in event.calls
    /\ "rpc2" \in event.calls => (event.op = "rpc1" /\ event.resp.kind # "ok")
    /\ \A t \in BagToSet(tasks) : t.pc = "rpc2" => t.rpc1_failed
    /\ event.op = "rpc2" =>
          IF event.resp.kind = "ok"
          THEN event.net = <<"returned", event.resp.height>>
          ELSE event.net = <<"raised">>
    /\ event.net = <<"raised">> => (event.op = "rpc2" /\ event.resp.kind # "ok")

\* endpoint 1 failed and endpoint 2 answered
C9_Witness ==
    event.op = "rpc2" /\ event.net # <<>> /\ event.net[1] = "returned"

\* C10: get_sync_status returns a snapshot only for a reference height and a
\* status document of the node; when both reference endpoints fail the node
\* is not asked, and when they fail or the node fails the call raises that
\* error with no metrics computed.
C10_NoPartialSnapshot ==
    /\ (event.sync # <<>> /\ event.sync[1] = "returned")
          => /\ event.op = "node" /\ event.resp.kind = "ok"
             /\ event.sync[2].current_height = event.resp.height
             /\ event.sync[2].catching_up = event.resp.catching_up
             /\ event.sync[2].network_height \in Heights
    /\ "node" \in event.calls => (event.net # <<>> /\ event.net[1] = "returned")
    /\ event.net = <<"raised">>
          => /\ event.sync = <<"raised", "Exception">>
             /\ event.monitor = NewSyncMonitor
             /\ "node" \notin event.calls
    /\ (event.op = "node" /\ event.resp.kind \in NodeFailures)
          => /\ event.sync = <<"raised", IF event.resp.kind = "unreachable"
                                         THEN "ClientConnectorError"
                                         ELSE "Exception">>
             /\ event.monitor = NewSyncMonitor

\* both reference endpoints failed
C10_Witness ==
    event.net = <<"raised">> /\ event.sync # <<>> /\ event.sync[1] = "raised"

----------------------------------------------------------------------------
(* split_message pass by pass (helpers.py, lines 37-45): split.message is   *)
(* the local message, split.parts the list parts                            *)

\* the default of max_length
default_max_length == 4000

\* the messages split_message is called with: up to MaxLines lines of these
\* lengths, around the limit
MaxLines == 3
LineLengths == {0, 1, 3999, 4000, 4001}
SplitMessages ==
    UNION {[1..n -> LineLengths] : n \in 1..MaxLines}

\* passes that cut nothing off, after which the model looks no further
MaxParts == 3

\* as SplitPass when the cut swallows the character it is made at
SplitPassDropping ==
    /\ ~split.returned
    /\ len(split.message) > default_max_length
    /\ LET i == split_index(split.message, default_max_length)
       IN  /\ i > 0 \/ Len(split.parts) < MaxParts
           /\ split' = [split EXCEPT
                            !.parts = Append(@, Take(split.message, i)),
                            !.message = Drop(split.message, i + 1)]
    /\ UNCHANGED <<chat_data, jobs, tasks, event, inputs, monitor>>

\* lines 38-43: one pass of the while loop
SplitPass ==
    /\ ~split.returned
    /\ len(split.message) > default_max_length
    /\ LET i == split_index(split.message, default_max_length)
       IN  /\ i > 0 \/ Len(split.parts) < MaxParts
           /\ split' = [split EXCEPT
                            !.parts = Append(@, Take(split.message, i)),
                            !.message = Drop(split.message, i)]
    /\ UNCHANGED <<chat_data, jobs, tasks, event, inputs, monitor>>

\* lines 44-45: the remainder fits, it is the last part
SplitReturn ==
    /\ ~split.returned
    /\ len(split.message) <= default_max_length
    /\ split' = [split EXCEPT !.parts = Append(@, split.message),
                              !.returned = TRUE]
    /\ UNCHANGED <<chat_data, jobs, tasks, event, inputs, monitor>>

\* line 37: split_message(message) has been called
InitSplit ==
    /\ chat_data = [c \in {1} |-> <<>>]
    /\ jobs = [c \in {1} |-> <<>>]
    /\ tasks = EmptyBag
    /\ event = Ev("init", 0)
    /\ inputs = [PollInputs EXCEPT !.max_tasks = 0]
    /\ monitor = NewSyncMonitor
    /\ \E m \in SplitMessages :
          split = [input |-> m, message |-> m, parts |-> <<>>, returned |-> FALSE]

NextSplit == SplitPass \/ SplitReturn

SpecSplit == InitSplit /\ [][NextSplit]_vars

----------------------------------------------------------------------------
(* Properties of the kept SyncMonitor (SpecSync)                           *)

\* calculate_sync_metrics ran in the last poll: both queries had succeeded
Calculated ==
    /\ event.op = "get_sync_status"
    /\ event.net # <<>> /\ event.net[1] = "returned"
    /\ event.resp.kind \in {"ok", "no_catching_up"}

\* the last poll returned a snapshot, event.sync[2]
Polled ==
    event.op = "get_sync_status" /\ event.sync # <<>> /\ event.sync[1] = "returned"

\* C11: when the reference height is above the node's, blocks_behind is their
\* difference exactly and sync_percent is below 100: 99.99 when the rounded
\* ratio would be 100.00.
C11_BehindBelowHundred ==
    (Polled /\ event.net[2] > event.resp.height)
        => /\ event.sync[2].blocks_behind = event.net[2] - event.resp.height
           /\ event.sync[2].sync_percent < 10000
           /\ RoundPercent(event.resp.height, event.net[2]) >= 10000
                 => event.sync[2].sync_percent = 9999

\* 99999 of 100000 blocks
C11_Witness ==
    /\ Polled /\ event.net[2] > event.resp.height
    /\ RoundPercent(event.resp.height, event.net[2]) = 10000
    /\ event.sync[2].sync_percent = 9999

\* C12: when the reference height is not above the node's, blocks_behind is 0
\* and sync_percent is 100; no snapshot has a negative blocks_behind.
C12_AheadIsClamped ==
    Polled
        => /\ event.sync[2].blocks_behind >= 0
           /\ event.net[2] <= event.resp.height
                 => /\ event.sync[2].blocks_behind = 0
                    /\ event.sync[2].sync_percent = 10000

\* the node is ahead of the reference
C12_Witness ==
    Polled /\ event.net[2] < event.resp.height /\ event.sync[2].blocks_behind = 0

\* C13: with a reference height of 0, sync_percent is 0 for every height of
\* the node.
C13_EmptyChainIsZero ==
    (Polled /\ event.net[2] = 0 /\ event.resp.height >= 0)
        => event.sync[2].sync_percent = 0

\* C14: on a monitor whose poll before recorded a height above 0, a poll dt > 0
\* seconds later sets sync_speed to (current_height - last_height) / dt,
\* whatever it was (1000 then 1100 over 50 seconds: 2); with dt <= 0 the
\* speed stays as it was.
C14_InstantaneousSpeed ==
    (Calculated /\ event.self.last_height > 0 /\ event.self.last_check_time # <<>>)
        => LET dt == event.monitor.last_check_time[1] - event.self.last_check_time[1]
               dh == event.resp.height - event.self.last_height
               speed == event.monitor.sync_speed
           IN  /\ speed[2] > 0
               /\ dt > 0 => speed[1] * dt = dh * speed[2]
               /\ dt <= 0 => speed = event.self.sync_speed
               /\ (dh = 100 /\ dt = 50) => speed[1] = 2 * speed[2]
               /\ Polled => event.sync[2].sync_speed = speed

\* 1000 then 1100 over 50 seconds, after a poll that had left another speed
C14_Witness ==
    /\ Polled
    /\ event.self.last_height = 1000 /\ event.resp.height = 1100
    /\ event.self.last_check_time = <<10>> /\ event.monitor.last_check_time = <<60>>
    /\ event.self.sync_speed[1] # 2 * event.self.sync_speed[2]
    /\ event.self.sync_speed[1] # 0
    /\ event.sync[2].sync_speed[1] = 2 * event.sync[2].sync_speed[2]

\* C15: the first poll of a monitor leaves sync_speed at 0 and returns no
\* time_remaining, whatever the heights.
C15_FirstPoll ==
    (Calculated /\ event.self = NewSyncMonitor)
        => /\ event.monitor.sync_speed = <<0, 1>>
           /\ Polled => /\ event.sync[2].sync_speed = <<0, 1>>
                         /\ event.sync[2].time_remaining = <<>>

\* a first poll that finds the node behind
C15_Witness ==
    /\ Polled /\ event.self = NewSyncMonitor
    /\ event.sync[2].blocks_behind > 0 /\ event.sync[2].time_remaining = <<>>

\* C16: a snapshot has a time_remaining exactly when its sync_speed is above
\* 0 and its blocks_behind is above 0.
C16_TimeRemainingIff ==
    Polled
        => /\ event.sync[2].sync_speed[2] > 0
           /\ event.sync[2].time_remaining # <<>>
                 <=> (event.sync[2].sync_speed[1] > 0 /\ event.sync[2].blocks_behind > 0)

\* the node is behind and its height went backwards since the poll before
C16_Witness ==
    /\ Polled /\ event.sync[2].blocks_behind > 0
    /\ event.sync[2].sync_speed[1] < 0 /\ event.sync[2].time_remaining = <<>>

\* C17: is_healthy is (blocks_behind < 100 and not catching_up), on the
\* snapshot's clamped blocks_behind and the node's own catching_up.
C17_HealthyIff ==
    Polled
        => /\ event.sync[3] = (event.sync[2].blocks_behind < 100
                                /\ ~event.sync[2].catching_up)
           /\ event.sync[2].catching_up = event.resp.catching_up
           /\ event.sync[2].blocks_behind =
                 (IF event.net[2] > event.resp.height
                  THEN event.net[2] - event.resp.height ELSE 0)

\* exactly 100 blocks behind and not catching up: not healthy
C17_Witness ==
    /\ Polled /\ event.sync[2].blocks_behind = 100
    /\ ~event.sync[2].catching_up /\ ~event.sync[3]

----------------------------------------------------------------------------
(* Properties of split_message (SpecSplit)                                 *)

\* the parts so far, and the remainder while the loop is running
Pieces == IF split.returned THEN split.parts ELSE Append(split.parts, split.message)

\* ''.join(texts)
RECURSIVE Join(_)
Join(texts) ==
    IF texts = <<>> THEN <<0>>
    ELSE Concat(Join(SubSeq(texts, 1, Len(texts) - 1)), texts[Len(texts)])

\* where the k-th cut was made in the argument
CutAt(k) == len(Join(SubSeq(Pieces, 1, k)))

\* text[k] is a newline
IsNewline(text, k) == \E j \in 1..(Len(text) - 1) : NewlineAt(text, j) = k

\* C18: at every pass the parts cut off so far are at most 4000 characters
\* each, and followed by the remainder they spell the argument exactly; a cut
\* is made at a newline, or 4000 characters on when those hold no newline.
C18_PartsRebuildMessage ==
    /\ Join(Pieces) = split.input
    /\ \A k \in 1..Len(split.parts) : len(split.parts[k]) <= default_max_length
    /\ \A k \in 1..(Len(Pieces) - 1) :
          \/ IsNewline(split.input, CutAt(k))
          \/ Len(Pieces[k]) = 1 /\ len(Pieces[k]) = default_max_length

\* a cut in the middle of a line and a cut at a newline, in one call
C18_Witness ==
    /\ split.returned
    /\ \E k \in 1..(Len(Pieces) - 1) : ~IsNewline(split.input, CutAt(k))
    /\ \E k \in 1..(Len(Pieces) - 1) :
          IsNewline(split.input, CutAt(k)) /\ len(Pieces[k]) > 0

\* C18 as stated: the list split_message returns is cut at newlines only.
C18_CutsOnlyAtNewlines ==
    split.returned
        => /\ Join(split.parts) = split.input
           /\ \A k \in 1..Len(split.parts) : len(split.parts[k]) <= default_max_length
           /\ \A k \in 1..(Len(split.parts) - 1) : IsNewline(split.input, CutAt(k))

\* C19: split_message returns for every message: a pass of the loop leaves a
\* remainder that is shorter than the one it started with.
C19_EachPassShortens ==
    [][(~split.returned /\ ~split'.returned)
        => len(split'.message) < len(split.message)]_vars

----------------------------------------------------------------------------
(* Properties of the rendered update (SpecPoll)                            *)

\* how often the block tok is in the message
Count(tok, message) == Cardinality({k \in 1..Len(message) : message[k] = tok})

\* C20: in the update made from a snapshot, the 'significantly behind' warning
\* is there exactly when blocks_behind > 100 and the 'still catching up'
\* warning exactly when catching_up is true, each whatever the other.
C20_WarningsIndependent ==
    (event.op = "node" /\ event.sync[1] = "returned")
        => /\ \E t \in BagToSet(tasks) : t.chat = event.chat /\ t.pc = "send"
           /\ \A t \in BagToSet(tasks) :
                (t.chat = event.chat /\ t.pc = "send")
                    => /\ Count("warn_behind", t.message) =
                            (IF event.sync[2].blocks_behind > 100 THEN 1 ELSE 0)
                       /\ Count("warn_catching_up", t.message) =
                            (IF event.sync[2].catching_up THEN 1 ELSE 0)

\* more than 100 blocks behind and catching up: both warnings
C20_Witness ==
    /\ event.op = "node" /\ event.sync[1] = "returned"
    /\ event.sync[2].blocks_behind > 100 /\ event.sync[2].catching_up
    /\ \E t \in BagToSet(tasks) :
          /\ t.pc = "send"
          /\ Count("warn_behind", t.message) = 1
          /\ Count("warn_catching_up", t.message) = 1

\* the last step completed the text of an update: get_sync_status is over
Completed ==
    event.op \in {"rpc2", "node"} /\ "send_message" \in event.calls

\* the texts that the last step completed
Rendered ==
    {t.message : t \in {u \in BagToSet(tasks) : u.chat = event.chat /\ u.pc = "send"}}

\* the sync sections in a message
Sections(message) ==
    Count("sync", message) + Count("connection_error", message)
        + Count("node_error", message)

\* C21: an update has exactly one sync section: the synchronization status
\* when get_sync_status returned, the connection troubleshooting block when
\* it raised a connection error (the node could not be reached), the generic
\* error block when it raised anything else.
C21_OneSyncSection ==
    /\ Completed
          => /\ Rendered # {}
             /\ \A message \in Rendered :
                  /\ Sections(message) = 1
                  /\ Count("sync", message) = 1 <=> event.sync[1] = "returned"
                  /\ Count("connection_error", message) = 1
                        <=> event.sync = <<"raised", "ClientConnectorError">>
                  /\ Count("node_error", message) = 1
                        <=> event.sync = <<"raised", "Exception">>
             /\ event.sync = <<"raised", "ClientConnectorError">>
                  <=> (event.op = "node" /\ event.resp.kind = "unreachable")
    /\ (event.op = "send" /\ event.sent = 1) => Sections(event.message) = 1

\* the troubleshooting block is delivered
C21_Witness ==
    /\ event.op = "send" /\ event.sent = 1
    /\ Count("connection_error", event.message) = 1

\* C28: a snapshot that is not healthy is rendered with a warning line, also
\* at exactly 100 blocks behind.
C28_UnhealthyIsWarned ==
    (Completed /\ event.sync[1] = "returned" /\ ~event.sync[3])
        => \A message \in Rendered :
              Count("warn_behind", message) + Count("warn_catching_up", message) >= 1

\* C30: the connection troubleshooting block is rendered only when a
\* reference endpoint gave a height and the node could not be reached; when
\* both reference endpoints fail, however they fail, the node is not asked
\* and the generic error block is rendered.
C30_ConnectionBlockIsTheNodes ==
    Completed
        => /\ \A t \in BagToSet(tasks) :
                (t.chat = event.chat /\ t.pc = "send"
                      /\ Count("connection_error", t.message) >= 1)
                    => /\ event.op = "node" /\ event.resp.kind = "unreachable"
                       /\ t.network_height \in Heights
           /\ event.net = <<"raised">>
                => /\ event.op = "rpc2" /\ "node" \notin event.calls
                   /\ Rendered # {}
                   /\ \A message \in Rendered :
                          /\ Count("node_error", message) = 1
                          /\ Count("connection_error", message) = 0

\* the second reference endpoint could not be reached either
C30_Witness ==
    /\ Completed /\ event.net = <<"raised">> /\ event.resp.kind = "unreachable"
    /\ \E message \in Rendered : Count("node_error", message) = 1

----------------------------------------------------------------------------
(* Properties of the service calls and of the gate                         *)

\* C22: get_monitoring_status returns the chat's flag as it is (False for a
\* chat that was never activated) and interval div 60, and changes neither a
\* flag nor a job nor a run.
C22_StatusIsPureRead ==
    [][event'.op = "get_monitoring_status"
        => /\ event'.ret = Monitoring(chat_data, event'.chat)
           /\ chat_data[event'.chat] = <<>> => ~event'.ret
           /\ event'.interval_minutes * 60 <= event'.interval
           /\ event'.interval < (event'.interval_minutes + 1) * 60
           /\ chat_data' = chat_data /\ jobs' = jobs /\ tasks' = tasks]_vars

\* 90 seconds are 1 minute, asked of a chat that was never activated
C22_Witness ==
    /\ event.op = "get_monitoring_status"
    /\ event.interval = 90 /\ event.interval_minutes = 1
    /\ ~event.ret /\ chat_data[event.chat] = <<>>

\* C23: a step for one chat (a command, a job firing, a step of a job run)
\* leaves every other chat's flag, job and runs as they were.
C23_ChatsIndependent ==
    [][\A b \in inputs.chats :
          b # event'.chat
            => /\ chat_data'[b] = chat_data[b]
               /\ jobs'[b] = jobs[b]
               /\ \A t \in BagToSet(tasks) \cup BagToSet(tasks') :
                     t.chat = b => CopiesIn(t, tasks') = CopiesIn(t, tasks)]_vars

\* a chat was deactivated while another was active with a run in flight
C23_Witness ==
    /\ event.op = "deactivate_monitoring" /\ event.ret
    /\ \E b \in inputs.chats :
          /\ b # event.chat /\ Monitoring(chat_data, b) /\ Len(jobs[b]) = 1
          /\ \E t \in BagToSet(tasks) : t.chat = b /\ ~t.stale

----------------------------------------------------------------------------
(* Properties of the monitor's state from poll to poll                     *)

\* C24: the speed a monitoring cycle reports is the change of height since
\* the cycle before, over the time between the two: the monitor's state is
\* kept from one cycle to the next.
C24_SpeedAcrossCycles ==
    [][(/\ event'.op = "node" /\ event'.sync[1] = "returned"
        /\ monitor.last_height > 0 /\ monitor.last_check_time # <<>>
        /\ event'.monitor.last_check_time[1] > monitor.last_check_time[1])
        => event'.sync[2].sync_speed[1]
               * (event'.monitor.last_check_time[1] - monitor.last_check_time[1])
           = (event'.resp.height - monitor.last_height)
               * event'.sync[2].sync_speed[2]]_vars

\* C26: a monitor starts with no last_check_time and last_height 0; a call of
\* calculate_sync_metrics sets last_height to its current_height and
\* last_check_time with it, and nothing else changes either of the two.
C26_HeightAndTimeTogether ==
    /\ monitor.last_check_time = <<>> /\ monitor.last_height = 0
    /\ [][IF Calculated'
          THEN /\ monitor'.last_height = event'.resp.height
               /\ monitor'.last_check_time # <<>>
          ELSE /\ monitor'.last_height = monitor.last_height
               /\ monitor'.last_check_time = monitor.last_check_time]_vars

\* a later poll of a kept monitor found another height
C26_Witness ==
    /\ Calculated /\ event.op = "get_sync_status"
    /\ event.self.last_check_time # <<>>
    /\ monitor.last_height = event.resp.height
    /\ monitor.last_height # event.self.last_height
    /\ monitor.last_check_time # event.self.last_check_time

\* C27: a get_sync_status that raises leaves last_height, last_check_time
\* and sync_speed of its monitor as they were.
C27_FailedPollKeepsState ==
    (event.op = "get_sync_status" /\ event.sync[1] = "raised")
        => (event.monitor = event.self /\ monitor = event.self)

\* C25: whatever becomes of the endpoint calls of one chat's job run, also if
\* they never return, a job run of the other chat ends: with its message
\* delivered, unless the chat was deactivated before the run began or
\* send_message raised.  While a run waits for an answer, a button press is
\* still handled.
C25_HungCycleBlocksOnlyItself ==
    /\ []((\E t \in BagToSet(tasks) : Awaiting(t)) => ENABLED Callback)
    /\ (\E t \in BagToSet(tasks) : t.chat = OtherChat)
          ~> /\ event.chat = OtherChat /\ event.ended
             /\ event.sent = 1 \/ event.op = "skip" \/ event.raised
                  \/ event.op = "send_error"

\* a run of the other chat delivered its update and ended while a run of the
\* hung chat was still waiting for its first answer
C25_Witness ==
    /\ \E t \in BagToSet(tasks) : t.chat = HungChat /\ t.pc = "rpc1"
    /\ event.chat = OtherChat /\ event.op = "send"
    /\ event.ended /\ event.sent = 1 /\ event.total_sent >= 1

====
